---- MODULE Spec2Model ----
(***************************************************************************)
(* p-adic digit extraction on leveled ciphertexts (extractDigits.cpp).    *)
(*                                                                         *)
(* A ciphertext is modelled by what the algorithm can observe of it: the   *)
(* integer held in one slot (all slots are treated alike), its plaintext   *)
(* modulus, its level, and whether it still is a valid encryption.         *)
(* A polynomial is the sequence of its coefficients, lowest first, with    *)
(* no trailing zero (the zero polynomial is << >>, of degree -1).          *)
(***************************************************************************)
EXTENDS Integers, Sequences, FiniteSets, TLC

\* Bounds of the model.
MaxP == 5      \* primes up to MaxP
MaxR == 3      \* plaintext spaces p^1 .. p^MaxR
MaxE == 3      \* precisions 0 .. MaxE handed to the polynomial builder directly

IsPrime(n) == n >= 2 /\ \A d \in 2..(n - 1) : n % d # 0
Primes == {n \in 2..MaxP : IsPrime(n)}

\* Level of the input ciphertext: enough for every round of the largest run.
InputLevels == {2 * MaxR, 2 * MaxR + 1}

Min(a, b) == IF a <= b THEN a ELSE b

RECURSIVE GCD(_, _)
GCD(a, b) == IF b = 0 THEN a ELSE GCD(b, a % b)

\* NTL power_long(p, e): the integer p^e.
RECURSIVE power_long(_, _)
power_long(a, e) == IF e <= 0 THEN 1 ELSE a * power_long(a, e - 1)

\* NTL PowerMod(a, e, n) for 0 <= a < n: a^e mod n.
RECURSIVE PowerMod(_, _, _)
PowerMod(a, e, n) == IF e = 0 THEN 1 % n ELSE (a * PowerMod(a, e - 1, n)) % n

\* The inverse of a unit a modulo n.
InvMod(a, n) == CHOOSE u \in 0..(n - 1) : (a * u) % n = 1 % n

(***************************************************************************)
(* Polynomials                                                             *)
(***************************************************************************)
\* The sequence f[1], ..., f[n], each entry computed once.
RECURSIVE Tabulate(_, _)
Tabulate(f, n) == IF n <= 0 THEN << >> ELSE Append(Tabulate(f, n - 1), f[n])

RECURSIVE Normalize(_)
Normalize(f) ==
  IF f = << >> THEN << >>
  ELSE IF f[Len(f)] = 0 THEN Normalize(SubSeq(f, 1, Len(f) - 1))
  ELSE f

\* NTL deg: -1 for the zero polynomial.
deg(f) == Len(f) - 1

\* Coefficient of x^k.
coeff(f, k) == IF k >= 0 /\ k < Len(f) THEN f[k + 1] ELSE 0

\* NTL SetCoeff(f, k): the coefficient of x^k becomes 1.
SetCoeff(f, k) ==
  Normalize(Tabulate([n \in 1..(IF k + 1 > Len(f) THEN k + 1 ELSE Len(f)) |->
                        IF n = k + 1 THEN 1 ELSE coeff(f, n - 1)],
                     IF k + 1 > Len(f) THEN k + 1 ELSE Len(f)))

\* f(x) modulo n, by Horner's rule.
RECURSIVE HornerMod(_, _, _, _, _)
HornerMod(f, k, x, n, acc) ==
  IF k = 0 THEN acc ELSE HornerMod(f, k - 1, x, n, (acc * x + f[k]) % n)

polyEvalMod(f, x, n) == HornerMod(f, Len(f), x % n, n, 0)

\* Newton interpolation modulo n through (x[k], y[k]), k = 1..Len(x): coef is
\* the interpolant through the first k-1 points, basis the product of the
\* (X - x[m]) for m < k.
RECURSIVE NewtonStep(_, _, _, _, _, _)
NewtonStep(k, coef, basis, x, y, n) ==
  IF k > Len(x) THEN coef
  ELSE LET cur == polyEvalMod(coef, x[k], n)
           b   == polyEvalMod(basis, x[k], n)
           a   == ((y[k] - cur) * InvMod(b, n)) % n
           coef2  == Tabulate([m \in 1..Len(basis) |->
                                 (coeff(coef, m - 1) + a * basis[m]) % n],
                              Len(basis))
           basis2 == Tabulate([m \in 1..(Len(basis) + 1) |->
                                 (coeff(basis, m - 2)
                                    - (x[k] % n) * coeff(basis, m - 1)) % n],
                              Len(basis) + 1)
       IN NewtonStep(k + 1, coef2, basis2, x, y, n)

\* interpolateMod(poly, x, y, p, e): the polynomial of degree < Len(x), with
\* coefficients in [0, p^e), that takes the value y[k] at x[k] modulo p^e; the
\* x[k] are distinct modulo p, which makes it unique.
interpolateMod(x, y, p, e) ==
  Normalize(NewtonStep(1, << >>, <<1>>, x, y, power_long(p, e)))

(***************************************************************************)
(* buildDigitPolynomial                                                    *)
(***************************************************************************)
\* The lowest of the p interpolation points.
bottom_zero(p) == 0
bottom(p) == -(p \div 2)

\* x[j] for j = 0..p-1.
xPoints(p) == Tabulate([n \in 1..p |-> bottom(p) + (n - 1)], p)

\* Fold v into [-(n/2), n/2] (the two while loops).
RECURSIVE Fold(_, _)
Fold(v, n) ==
  IF v > n \div 2 THEN Fold(v - n, n)
  ELSE IF v < -(n \div 2) THEN Fold(v + n, n)
  ELSE v

\* y[j] = z - z^p (mod p^e), folded.
yPoint_swapped(z, p, p2e) ==
  Fold(PowerMod(IF z < 0 THEN z + p2e ELSE z, p, p2e) - z, p2e)
yPoint(z, p, p2e) == Fold(z - PowerMod(IF z < 0 THEN z + p2e ELSE z, p, p2e), p2e)

yPoints(p, e) ==
  Tabulate([n \in 1..p |-> yPoint(xPoints(p)[n], p, power_long(p, e))], p)

\* The interpolated correction poly'(x).
DigitCorrection(p, e) == interpolateMod(xPoints(p), yPoints(p, e), p, e)

\* result = x^p + poly'(x).
Assemble_shifted(corr, p) == SetCoeff(corr, p - 1)
Assemble(corr, p) == SetCoeff(corr, p)

\* The no-op test of buildDigitPolynomial.
NothingToDo(p, e) == p < 2 \/ e <= 1

\* The whole function as one value: what it leaves in result.
buildDigitPolynomial(result, p, e) ==
  IF NothingToDo(p, e) THEN result
  ELSE Assemble(DigitCorrection(p, e), p)

(***************************************************************************)
(* Ciphertexts and the operations of the ciphertext type the algorithm     *)
(* uses.  Accounting: a p-th-power operation (square, cube, polynomial     *)
(* evaluation) consumes one level; divide-by-p divides the plaintext       *)
(* modulus by p and drops one level; a sum or difference sits at the lower *)
(* level and at the coarser modulus (the gcd) of its operands.             *)
(***************************************************************************)
\* The level left by a p-th-power operation, by divide-by-p, by a difference.
LevelAfterPower(lvl) == lvl - 1
LevelAfterDivide(lvl) == lvl - 1
LevelOfDifference(la, lb) == Min(la, lb)

Ctxt(v, ps, lvl) ==
  [val |-> v, ptxtSpace |-> ps, level |-> lvl, valid |-> TRUE, empty |-> FALSE]

\* Ctxt tmp(pubKey, ptxtSpace): an empty ciphertext.
EmptyCtxt(ps) ==
  [val |-> 0, ptxtSpace |-> ps, level |-> 0, valid |-> TRUE, empty |-> TRUE]

\* c.effectiveR(): the r with ptxtSpace = p^r (0 stands for the error exit).
RECURSIVE effectiveRFrom(_, _, _, _)
effectiveRFrom(r, p2r, ps, p) ==
  IF p2r = ps THEN r
  ELSE IF p2r > ps THEN 0
  ELSE effectiveRFrom(r + 1, p2r * p, ps, p)

effectiveR(ct, p) == effectiveRFrom(1, p, ct.ptxtSpace, p)

square(ct) ==
  [ct EXCEPT !.val = (ct.val * ct.val) % ct.ptxtSpace,
             !.level = LevelAfterPower(ct.level)]

cube(ct) ==
  [ct EXCEPT !.val = (((ct.val * ct.val) % ct.ptxtSpace) * ct.val) % ct.ptxtSpace,
             !.level = LevelAfterPower(ct.level)]

\* polyEval(res, poly, ct): poly evaluated on the slots of ct.
polyEval(poly, ct) ==
  [ct EXCEPT !.val = HornerMod(poly, Len(poly), ct.val, ct.ptxtSpace, 0),
             !.level = LevelAfterPower(ct.level)]

\* a -= b
CtxtSub(a, b) ==
  LET g == GCD(a.ptxtSpace, b.ptxtSpace)
  IN [val       |-> (a.val - b.val) % g,
      ptxtSpace |-> g,
      level     |-> LevelOfDifference(a.level, b.level),
      valid     |-> a.valid /\ b.valid,
      empty     |-> FALSE]

\* ct.divideByP(): exact only when every slot is divisible by p; otherwise
\* what is left is no valid ciphertext.
divideByP(ct, p) ==
  [ct EXCEPT !.val = (ct.val \div p) % (ct.ptxtSpace \div p),
             !.ptxtSpace = ct.ptxtSpace \div p,
             !.level = LevelAfterDivide(ct.level),
             !.valid = ct.valid /\ ct.val % p = 0]

(***************************************************************************)
(* extractDigits: its steps as pure operators                              *)
(***************************************************************************)
\* if (r<=0 || r>rr) r = rr
ClampR_strict(r, rr) == IF r < 0 \/ r > rr THEN rr ELSE r
ClampR(r, rr) == IF r <= 0 \/ r > rr THEN rr ELSE r

\* if (p>3) buildDigitPolynomial(x2p, p, r)
CallsBuilder_from3(p) == p >= 3
CallsBuilder(p) == p > 3

\* "in spirit" w[j] = w[j]^p
PthPower_noPoly(p, x2p, wj) == IF p = 2 THEN square(wj) ELSE cube(wj)
PthPower(p, x2p, wj) ==
  IF p = 2 THEN square(wj)
  ELSE IF p = 3 THEN cube(wj)
  ELSE polyEval(x2p, wj)

\* digits.resize(r, tmp)
Resize(v, n, fill) ==
  [k \in 1..n |-> IF k <= Len(v) THEN v[k] ELSE fill]

(***************************************************************************)
(* extractDigits as a function of its arguments: the vector it leaves in   *)
(* digits (for a call whose divisions all pass their assertion).           *)
(***************************************************************************)
\* The inner loop from step jj on: <<tmp, w>> when it ends.
RECURSIVE InnerLoop(_, _, _, _, _, _)
InnerLoop(pp, poly, t, ws, ii, jj) ==
  IF jj >= ii THEN <<t, ws>>
  ELSE LET wj == PthPower(pp, poly, ws[jj + 1])
       IN InnerLoop(pp, poly, divideByP(CtxtSub(t, wj), pp),
                    [ws EXCEPT ![jj + 1] = wj], ii, jj + 1)

\* The outer loop from round ii on, then the final copy.
RECURSIVE Rounds(_, _, _, _, _, _, _, _)
Rounds(ct, pp, poly, rcl, sc, ds, ws, ii) ==
  IF ii >= rcl
    THEN IF sc THEN ds
         ELSE [k \in 1..Len(ds) |-> IF k <= rcl THEN ws[k] ELSE ds[k]]
    ELSE LET tw  == InnerLoop(pp, poly, ct, ws, ii, 0)
             ws2 == [tw[2] EXCEPT ![ii + 1] = tw[1]]
             ds2 == IF sc THEN [ds EXCEPT ![ii + 1] = tw[1]] ELSE ds
         IN Rounds(ct, pp, poly, rcl, sc, ds2, ws2, ii + 1)

\* The loops for a polynomial already built.
Loops(ds0, ct, pp, rcl, poly, sc) ==
  Rounds(ct, pp, poly, rcl, sc, Resize(ds0, rcl, EmptyCtxt(ct.ptxtSpace)),
         [k \in 1..rcl |-> EmptyCtxt(ct.ptxtSpace)], 0)

\* The polynomial is built once, before the loops.
extractDigits(ds0, ct, pp, rq, sc) ==
  CHOOSE ds \in
    {Loops(ds0, ct, pp, rcl, poly, sc) :
       rcl \in {ClampR(rq, effectiveR(ct, pp))},
       poly \in {IF CallsBuilder(pp)
                   THEN buildDigitPolynomial(<< >>, pp,
                                             ClampR(rq, effectiveR(ct, pp)))
                   ELSE << >>}} : TRUE

(***************************************************************************)
(* State                                                                   *)
(***************************************************************************)
VARIABLES
  pc,           \* the statement about to run
  \* extractDigits: arguments, context and locals
  c,            \* the input ciphertext
  p,            \* context.zMStar.getP()
  r,            \* the parameter r, overwritten by the clamp
  shortCut,
  digits,       \* the caller's vector
  rr, x2p, tmp, w, i, j,
  \* history of the call (not program state)
  rArg,         \* r as the caller passed it
  nPow,         \* nPow[k]: p-th-power operations applied to w[k-1] since stored
  builderArgs,  \* the <<p, e>> buildDigitPolynomial was called with, << >> if not
  evalPolys,    \* the polynomials handed to polyEval
  \* buildDigitPolynomial called on its own
  bp, be, result, bz, bval

extractVars == <<c, p, r, shortCut, digits, rr, x2p, tmp, w, i, j>>
historyVars == <<rArg, nPow, builderArgs, evalPolys>>
builderVars == <<bp, be, result, bz, bval>>
vars == <<pc, extractVars, historyVars, builderVars>>

\* Values of the variables a call does not use or has not set yet.
NoCtxt == EmptyCtxt(1)

\* What the caller's vector may hold on entry.
StaleDigits == {<< >>, [k \in 1..(MaxR + 1) |-> Ctxt(1, 2, 0)]}

InitExtract ==
  \E pp \in Primes, R \in 1..MaxR, sc \in BOOLEAN, lvl \in InputLevels,
     d0 \in StaleDigits :
    \E zz \in 0..(power_long(pp, R) - 1), rq \in (-1)..(R + 1) :
      /\ pc = "start"
      /\ p = pp
      /\ c = Ctxt(zz, power_long(pp, R), lvl)
      /\ r = rq
      /\ rArg = rq
      /\ shortCut = sc
      /\ digits = d0
      /\ rr = 0 /\ x2p = << >> /\ tmp = NoCtxt /\ w = << >> /\ i = 0 /\ j = 0
      /\ nPow = << >> /\ builderArgs = << >> /\ evalPolys = {}
      /\ bp = 0 /\ be = 0 /\ result = << >> /\ bz = 0 /\ bval = 0

\* Primes, and the degenerate values below 2.
BuilderP == {0, 1} \cup Primes

InitBuild ==
  \E pp \in BuilderP, ee \in 0..MaxE :
    /\ pc = "bcall"
    /\ bp = pp /\ be = ee /\ result = << >> /\ bz = 0 /\ bval = 0
    /\ p = 0 /\ c = NoCtxt /\ r = 0 /\ rArg = 0 /\ shortCut = FALSE
    /\ digits = << >>
    /\ rr = 0 /\ x2p = << >> /\ tmp = NoCtxt /\ w = << >> /\ i = 0 /\ j = 0
    /\ nPow = << >> /\ builderArgs = << >> /\ evalPolys = {}

Init == InitExtract \/ InitBuild

(***************************************************************************)
(* extractDigits, statement by statement                                   *)
(***************************************************************************)
\* long rr = c.effectiveR(); if (r<=0 || r>rr) r = rr;
Start ==
  /\ pc = "start"
  /\ rr' = effectiveR(c, p)
  /\ r' = ClampR(r, effectiveR(c, p))
  /\ pc' = "build"
  /\ UNCHANGED <<c, p, shortCut, digits, x2p, tmp, w, i, j>>
  /\ UNCHANGED <<historyVars, builderVars>>

\* ZZX x2p; if (p>3) buildDigitPolynomial(x2p, p, r);
Build ==
  /\ pc = "build"
  /\ x2p' = IF CallsBuilder(p) THEN buildDigitPolynomial(x2p, p, r) ELSE x2p
  /\ builderArgs' = IF CallsBuilder(p) THEN <<p, r>> ELSE builderArgs
  /\ pc' = "alloc"
  /\ UNCHANGED <<c, p, r, shortCut, digits, rr, tmp, w, i, j>>
  /\ UNCHANGED <<rArg, nPow, evalPolys, builderVars>>

\* Ctxt tmp(...); digits.resize(r, tmp); vector<Ctxt> w(r, tmp); i = 0
Alloc ==
  /\ pc = "alloc"
  /\ tmp' = EmptyCtxt(c.ptxtSpace)
  /\ digits' = Resize(digits, r, tmp')
  /\ w' = [k \in 1..r |-> tmp']
  /\ nPow' = [k \in 1..r |-> 0]
  /\ i' = 0
  /\ pc' = "round"
  /\ UNCHANGED <<c, p, r, shortCut, rr, x2p, j>>
  /\ UNCHANGED <<rArg, builderArgs, evalPolys, builderVars>>

\* for (i...; i<r; ...) { tmp = c; j = 0
RoundStart_noReset ==
  /\ pc = "round"
  /\ i < r
  /\ j' = 0
  /\ pc' = "inner"
  /\ UNCHANGED <<c, p, r, shortCut, digits, rr, x2p, tmp, w, i>>
  /\ UNCHANGED <<historyVars, builderVars>>
RoundStart ==
  /\ pc = "round"
  /\ i < r
  /\ tmp' = c
  /\ j' = 0
  /\ pc' = "inner"
  /\ UNCHANGED <<c, p, r, shortCut, digits, rr, x2p, w, i>>
  /\ UNCHANGED <<historyVars, builderVars>>

\* for (j...; j<i; ...) { w[j] = w[j]^p "in spirit"
Power ==
  /\ pc = "inner"
  /\ j < i
  /\ w' = [w EXCEPT ![j + 1] = PthPower(p, x2p, w[j + 1])]
  /\ nPow' = [nPow EXCEPT ![j + 1] = @ + 1]
  /\ evalPolys' = IF p > 3 THEN evalPolys \cup {x2p} ELSE evalPolys
  /\ pc' = "sub"
  /\ UNCHANGED <<c, p, r, shortCut, digits, rr, x2p, tmp, i, j>>
  /\ UNCHANGED <<rArg, builderArgs, builderVars>>

\* tmp -= w[j]
Subtract_wrongIndex ==
  /\ pc = "sub"
  /\ tmp' = CtxtSub(tmp, w[i + 1])
  /\ pc' = "div"
  /\ UNCHANGED <<c, p, r, shortCut, digits, rr, x2p, w, i, j>>
  /\ UNCHANGED <<historyVars, builderVars>>
Subtract ==
  /\ pc = "sub"
  /\ tmp' = CtxtSub(tmp, w[j + 1])
  /\ pc' = "div"
  /\ UNCHANGED <<c, p, r, shortCut, digits, rr, x2p, w, i, j>>
  /\ UNCHANGED <<historyVars, builderVars>>

\* tmp.divideByP(), which asserts ptxtSpace > p; j++ }
Divide ==
  /\ pc = "div"
  /\ IF tmp.ptxtSpace > p
       THEN /\ tmp' = divideByP(tmp, p)
            /\ j' = j + 1
            /\ pc' = "inner"
       ELSE /\ pc' = "abort"
            /\ UNCHANGED <<tmp, j>>
  /\ UNCHANGED <<c, p, r, shortCut, digits, rr, x2p, w, i>>
  /\ UNCHANGED <<historyVars, builderVars>>

\* w[i] = tmp; if (shortCut) digits[i] = tmp; i++ }
Store_stale ==
  /\ pc = "inner"
  /\ j >= i
  /\ w' = [w EXCEPT ![i + 1] = tmp]
  /\ nPow' = [nPow EXCEPT ![i + 1] = 0]
  /\ digits' = IF shortCut THEN [digits EXCEPT ![i + 1] = w[i + 1]] ELSE digits
  /\ i' = i + 1
  /\ pc' = "round"
  /\ UNCHANGED <<c, p, r, shortCut, rr, x2p, tmp, j>>
  /\ UNCHANGED <<rArg, builderArgs, evalPolys, builderVars>>
Store ==
  /\ pc = "inner"
  /\ j >= i
  /\ w' = [w EXCEPT ![i + 1] = tmp]
  /\ nPow' = [nPow EXCEPT ![i + 1] = 0]
  /\ digits' = IF shortCut THEN [digits EXCEPT ![i + 1] = tmp] ELSE digits
  /\ i' = i + 1
  /\ pc' = "round"
  /\ UNCHANGED <<c, p, r, shortCut, rr, x2p, tmp, j>>
  /\ UNCHANGED <<rArg, builderArgs, evalPolys, builderVars>>

\* if (!shortCut) for (i...; i<r; ...) digits[i] = w[i];
CopyOut_always ==
  /\ pc = "round"
  /\ i >= r
  /\ digits' = [k \in 1..Len(digits) |-> IF k <= r THEN w[k] ELSE digits[k]]
  /\ pc' = "done"
  /\ UNCHANGED <<c, p, r, shortCut, rr, x2p, tmp, w, i, j>>
  /\ UNCHANGED <<historyVars, builderVars>>
CopyOut ==
  /\ pc = "round"
  /\ i >= r
  /\ digits' = IF ~shortCut
                 THEN [k \in 1..Len(digits) |-> IF k <= r THEN w[k] ELSE digits[k]]
                 ELSE digits
  /\ pc' = "done"
  /\ UNCHANGED <<c, p, r, shortCut, rr, x2p, tmp, w, i, j>>
  /\ UNCHANGED <<historyVars, builderVars>>

(***************************************************************************)
(* buildDigitPolynomial called on its own, and its result evaluated        *)
(***************************************************************************)
\* if (p<2 || e<=1) return; ... interpolateMod(result, x, y, p, e);
BInterpolate ==
  /\ pc = "bcall"
  /\ IF NothingToDo(bp, be)
       THEN /\ pc' = "breturned"
            /\ UNCHANGED result
       ELSE /\ result' = DigitCorrection(bp, be)
            /\ pc' = "bassert"
  /\ UNCHANGED <<bp, be, bz, bval, extractVars, historyVars>>

\* assert(deg(result)<p); SetCoeff(result, p);
BAssemble ==
  /\ pc = "bassert"
  /\ IF deg(result) < bp
       THEN /\ result' = Assemble(result, bp)
            /\ pc' = "bbuilt"
       ELSE /\ pc' = "babort"
            /\ UNCHANGED result
  /\ UNCHANGED <<bp, be, bz, bval, extractVars, historyVars>>

\* The integers the built polynomial is evaluated at.
EvalPoints == (-power_long(bp, be))..power_long(bp, be)

\* poly(z) mod p^e
BEval ==
  /\ pc = "bbuilt"
  /\ \E z \in EvalPoints :
       /\ bz' = z
       /\ bval' = polyEvalMod(result, z, power_long(bp, be))
  /\ pc' = "bevaluated"
  /\ UNCHANGED <<bp, be, result, extractVars, historyVars>>

Next ==
  \/ Start \/ Build \/ Alloc \/ RoundStart \/ Power \/ Subtract \/ Divide
  \/ Store \/ CopyOut
  \/ BInterpolate \/ BAssemble \/ BEval

Spec == Init /\ [][Next]_vars

(***************************************************************************)
(* Vocabulary of the properties                                            *)
(***************************************************************************)
Congruent(a, b, n) == (a - b) % n = 0

\* The j-th lowest digit of z in the standard base-p expansion, in [0, p).
StdDigit(z, k, pp) == (z \div power_long(pp, k)) % pp

\* The representative of v modulo pp that the p-th power map fixes: in
\* {0, 1} for pp = 2, in {-(pp-1)/2, ..., (pp-1)/2} for odd pp.
CenteredRep(v, pp) ==
  LET m == v % pp
  IN IF pp > 2 /\ m > (pp - 1) \div 2 THEN m - pp ELSE m

\* The j-th lowest digit of z in the base-p expansion with those digits.
RECURSIVE CenteredDigit(_, _, _)
CenteredDigit(z, k, pp) ==
  IF k = 0 THEN CenteredRep(z, pp)
  ELSE CenteredDigit((z - CenteredRep(z, pp)) \div pp, k - 1, pp)

InExtract == pc \in {"start", "build", "alloc", "round", "inner", "sub", "div",
                     "done", "abort"}

\* The modulus digits[k-1] is read against.
DigitModulus(k) == IF shortCut THEN p ELSE power_long(p, r - (k - 1))

\* What the other mode leaves in digits for the same input and digit count.
OtherMode == extractDigits(<< >>, c, p, r, ~shortCut)

(***************************************************************************)
(* Properties                                                              *)
(***************************************************************************)

C3_Clamping ==
  /\ pc # "abort"
  /\ pc = "done" =>
       IF rArg <= 0 \/ rArg > effectiveR(c, p)
         THEN /\ digits = extractDigits(<< >>, c, p, effectiveR(c, p), shortCut)
              /\ Len(digits) = effectiveR(c, p)
         ELSE Len(digits) = rArg

\* Calls with r = -1, 0 and effectiveR + 1 on a three-digit input returned.
C3_Witness ==
  /\ pc = "done" /\ effectiveR(c, p) = 3 /\ rArg \in {-1, 0, 4}
  /\ Len(digits) = 3

C6_TopRoundSameInBothModes ==
  (pc = "done" /\ r >= 1) =>
    /\ digits[r] = OtherMode[r]
    /\ nPow[r] = 0

\* A call has returned whose first entry differs from the other mode's while
\* its last entry does not.
C6_Witness ==
  /\ pc = "done" /\ r >= 2
  /\ digits[1] # OtherMode[1]
  /\ digits[r] = OtherMode[r]

\* C7: the interpolated correction has degree < p (the assertion holds), and
\* the polynomial returned has degree exactly p, coefficient 1 at x^p and the
\* correction's coefficients below.
C7_DegreeBound ==
  /\ pc # "babort"
  /\ pc = "bassert" => deg(result) < bp
  /\ pc = "bbuilt" =>
       /\ deg(result) = bp
       /\ coeff(result, bp) = 1
       /\ \A k \in 0..(bp - 1) :
            coeff(result, k) = coeff(DigitCorrection(bp, be), k)
  /\ (InExtract /\ pc \notin {"start", "build"} /\ p > 3 /\ r > 1) =>
       deg(x2p) = p /\ coeff(x2p, p) = 1

\* The polynomial for p = 3 has been built: its correction is zero, of
\* degree -1.
C7_Witness ==
  pc = "bbuilt" /\ bp = 3 /\ be = 2 /\ result = <<0, 0, 0, 1>>

\* What C8 says of the no-op call and of the polynomials evaluated.
C8_NoOpAndEvaluations ==
  /\ pc = "breturned" => (NothingToDo(bp, be) /\ result = << >>)
  /\ pc \in {"bassert", "bbuilt"} => ~NothingToDo(bp, be)
  /\ (builderArgs # << >> /\ NothingToDo(builderArgs[1], builderArgs[2])) =>
       x2p = << >>
  /\ \A f \in evalPolys :
       /\ f # << >> /\ deg(f) = p
       /\ f = x2p /\ builderArgs = <<p, r>>

\* C8 (as stated): the builder leaves result empty when e <= 1 or p < 2, no
\* empty polynomial is evaluated, every polyEval gets the degree-p polynomial
\* built for (p, r), and extractDigits calls the builder only when p > 3 and
\* the clamped digit count is > 1.
C8_BuilderOnlyForSeveralDigits ==
  /\ C8_NoOpAndEvaluations
  /\ InExtract => (builderArgs # << >> => (p > 3 /\ r > 1))

\* C8 (amended): as stated, except that extractDigits calls the builder
\* exactly when p > 3, whatever the clamped digit count: with one digit the
\* call is the no-op and leaves x2p empty, and no polyEval follows.
C8_BuilderForEveryLargePrime ==
  /\ C8_NoOpAndEvaluations
  /\ (InExtract /\ pc \notin {"start", "build"}) =>
       /\ builderArgs = (IF p > 3 THEN <<p, r>> ELSE << >>)
       /\ (r <= 1 \/ p <= 3) => (x2p = << >> /\ evalPolys = {})

\* A one-digit call with p = 5 has returned, and the builder was called.
C8_Witness ==
  pc = "done" /\ p = 5 /\ r = 1 /\ builderArgs = <<5, 1>> /\ x2p = << >>

\* C9: when tmp.divideByP() is called, the slot of tmp is divisible by p and
\* the plaintext modulus of tmp is p^(R-j) with R-j >= 2; no division fails
\* its assertion and no ciphertext becomes invalid.
C9_DivideExact ==
  /\ pc # "abort"
  /\ tmp.valid
  /\ pc = "div" =>
       /\ j < i
       /\ tmp.val % p = 0
       /\ tmp.ptxtSpace = power_long(p, rr - j)
       /\ rr - j >= 2
       /\ tmp.ptxtSpace > p

\* The last division of a three-digit run with p = 5 is about to happen, on
\* a slot that is not zero.
C9_Witness ==
  pc = "div" /\ p = 5 /\ i = 2 /\ j = 1 /\ tmp.val # 0 /\ tmp.ptxtSpace = 25

====
